---------------------------- MODULE Spec2Model ----------------------------
(***************************************************************************)
(* A model of foundation::QMCSamplingContext<RNG>                          *)
(* (src/appleseed/foundation/math/sampling/qmcsamplingcontext.h).          *)
(*                                                                         *)
(* Two context objects live in the slots Ctxs; each is bound to one of the *)
(* random number generators Rngs.  Every public member function is one    *)
(* action; what it returns (the child of split, the vector of a draw) is  *)
(* held in child and out until the next operation.  The build modelled is the one with assertions enabled: a      *)
(* failed assert() aborts the program (status = "aborted", nothing else   *)
(* changes and no further operation runs); ExceptionNotImplemented is     *)
(* thrown to the caller, who goes on.                                     *)
(*                                                                         *)
(* Sample values and offsets are exact rationals k / Den, held as the     *)
(* integer k; the rounding of double arithmetic is not modelled.          *)
(***************************************************************************)
EXTENDS Integers, Sequences, FiniteSets, TLC

(***************************************************************************)
(* Bounds of the model.                                                    *)
(***************************************************************************)
\* largest instance a context is driven to (constructor, set_instance, draws)
MaxInstance == 4
\* largest base_dimension a split may produce
MaxBaseDimension == 4
\* largest base_instance a split may produce
MaxBaseInstance == 1
\* number of values the counting generator can return
MaxConsumed == 6

(***************************************************************************)
(* Program constants.                                                      *)
(***************************************************************************)
\* VectorType::Dimension of typedef Vector<double, 4> VectorType
VectorDimension == 4
\* row stride of PrecomputedHaltonSequence in next_vector2
HaltonStride == 4

(***************************************************************************)
(* The tables of foundation/math (primes.h, permutation.h, qmc.h).  Their  *)
(* sizes are scaled down so that padded dimensions and the computed path   *)
(* are reached within the bounds.                                          *)
(***************************************************************************)
PrimeTableSize == 5
Primes == <<2, 3, 5, 7, 11>>
FaurePermutationTableSize == 5
\* Faure's permutations of the digits of bases 2, 3, 5, 7, 11
FaurePermutations ==
    << <<0, 1>>,
       <<0, 1, 2>>,
       <<0, 3, 2, 1, 4>>,
       <<0, 2, 5, 3, 1, 4, 6>>,
       <<0, 7, 4, 2, 9, 5, 1, 8, 6, 3, 10>> >>
PrecomputedHaltonSequenceSize == 2

\* common denominator of every value: 2^4 * 3^3 * 5^2 * 7^2 * 11^2
Den == 16 * 27 * 25 * 49 * 121
Values == 0..(Den - 1)

\* sum over the digits a_k of n in the given base of a_k * base^-(k+1),
\* w being Den * base^-(k+1) for the current digit
RECURSIVE radical_inverse(_, _, _)
radical_inverse(base, n, w) ==
    IF n = 0 THEN 0
    ELSE (n % base) * w + radical_inverse(base, n \div base, w \div base)

radical_inverse_base2(n) == radical_inverse(2, n, Den \div 2)

fast_radical_inverse(base_index, n) ==
    radical_inverse(Primes[base_index + 1], n, Den \div Primes[base_index + 1])

RECURSIVE permuted_radical_inverse(_, _, _, _)
permuted_radical_inverse(base, perm, n, w) ==
    IF n = 0 THEN 0
    ELSE perm[(n % base) + 1] * w
            + permuted_radical_inverse(base, perm, n \div base, w \div base)

fast_permuted_radical_inverse(base_index, perm, n) ==
    permuted_radical_inverse(
        Primes[base_index + 1], perm, n, Den \div Primes[base_index + 1])

\* the first PrecomputedHaltonSequenceSize points of the 4-d Halton sequence,
\* indexed from 0 as in the source
PrecomputedHaltonSequence ==
    [k \in 0..(PrecomputedHaltonSequenceSize * 4 - 1) |->
        radical_inverse(Primes[(k % 4) + 1], k \div 4, Den \div Primes[(k % 4) + 1])]

(***************************************************************************)
(* The random number generators.  Rng 1 cycles through a short stream,     *)
(* rng 2 is a mock fixed to 0.3, rng 3 returns a stream of distinct values *)
(* so that its state is the number of values it has returned.              *)
(* rand_double2 returns the value at the generator's state and advances    *)
(* the state.                                                              *)
(***************************************************************************)
Rngs == {1, 2, 3}
Counting == 3
RngStream ==
    << <<Den \div 2, (2 * Den) \div 3>>,
       <<(3 * Den) \div 10>>,
       [j \in 1..(MaxConsumed + 1) |-> j * (Den \div (MaxConsumed + 3))] >>
\* the states a generator may be in when the first context is constructed
RngSeeds ==
    {f \in [Rngs -> 0..1] :
        /\ \A r \in Rngs : f[r] < Len(RngStream[r])
        /\ f[Counting] = 0}
RngStates(r) == 0..(Len(RngStream[r]) - 1)

rand_double2(r, s) ==
    [value |-> RngStream[r][s + 1], next |-> (s + 1) % Len(RngStream[r])]

(***************************************************************************)
(* State.                                                                  *)
(***************************************************************************)
Ctxs == {1, 2}

VARIABLES
    ctx,        \* ctx[c]: the data members of context c
    rngOf,      \* rngOf[c]: the generator m_rng of context c refers to
    rngState,   \* rngState[r]: the state of generator r
    status,     \* "running", or "aborted" after a failed assertion
    last,       \* the last operation: its name, receiver, argument and outcome
    child,      \* <<the context returned by the last operation>>, if a split
    out         \* the components written by the last operation, if a draw

vars == <<ctx, rngOf, rngState, status, last, child, out>>

NoChild == << >>

NoOutput == [i \in {} |-> 0]
ZeroOffset == [i \in 0..(VectorDimension - 1) |-> 0]

\* values an uninitialized double may hold
Indeterminate == {0, Den \div 3}
\* the contents a default-constructed VectorType may have: its entries are
\* not initialized (every entry is given the same indeterminate value)
Uninitialized ==
    {[i \in 0..(VectorDimension - 1) |-> u] : u \in Indeterminate}

get_total_dimension(c) == ctx[c].base_dimension + ctx[c].dimension
get_total_instance(c) == ctx[c].base_instance + ctx[c].instance

\* a faulty rotation that lets a sum of exactly 1 through
rotate_strict(x, offset) ==
    IF x + offset > Den THEN x + offset - Den ELSE x + offset

\* Cranley-Patterson rotation: x += offset; if (x >= 1.0) x -= 1.0
rotate(x, offset) ==
    IF x + offset >= Den THEN x + offset - Den ELSE x + offset

\* the loop of compute_offset from local dimension i on; st = [offset, rng],
\* rng being the state of generator r
RECURSIVE compute_offset_from(_, _, _, _, _, _)
compute_offset_from(i, st, r, base_dimension, base_instance, dimension) ==
    IF i >= dimension THEN st
    ELSE LET d == base_dimension + i IN
         IF d < FaurePermutationTableSize
         THEN compute_offset_from(i + 1,
                [st EXCEPT !.offset[i] =
                    fast_permuted_radical_inverse(
                        d, FaurePermutations[d + 1], base_instance)],
                r, base_dimension, base_instance, dimension)
         ELSE LET rnd == rand_double2(r, st.rng) IN
              compute_offset_from(i + 1,
                [st EXCEPT !.offset[i] = rnd.value, !.rng = rnd.next],
                r, base_dimension, base_instance, dimension)

\* a faulty compute_offset that pads every dimension
compute_offset_all_padded(offset, r, s, base_dimension, base_instance, dimension) ==
    [offset |-> [i \in 0..(VectorDimension - 1) |->
                    IF i < dimension
                    THEN RngStream[r][((s + i) % Len(RngStream[r])) + 1]
                    ELSE offset[i]],
     rng |-> (s + dimension) % Len(RngStream[r])]

\* a faulty compute_offset that draws a value for every dimension and uses it
\* for the padded ones only
compute_offset_drawing_always(offset, r, s, base_dimension, base_instance, dimension) ==
    LET st == compute_offset_from(0, [offset |-> offset, rng |-> s], r,
                                  base_dimension, base_instance, dimension)
    IN  [st EXCEPT !.rng = (s + dimension) % Len(RngStream[r])]

\* a faulty compute_offset that forgets the padding
compute_offset_unpadded(offset, r, s, base_dimension, base_instance, dimension) ==
    LET st == compute_offset_from(0, [offset |-> offset, rng |-> s], r,
                                  base_dimension, base_instance, dimension)
    IN  [st EXCEPT !.offset =
            [i \in 0..(VectorDimension - 1) |->
                IF i < dimension /\ base_dimension + i >= FaurePermutationTableSize
                THEN 0 ELSE st.offset[i]]]

compute_offset(offset, r, s, base_dimension, base_instance, dimension) ==
    compute_offset_from(0, [offset |-> offset, rng |-> s], r,
                        base_dimension, base_instance, dimension)

\* assert(d < PrimeTableSize) in compute_offset
compute_offset_asserts(base_dimension, dimension) ==
    \A i \in 0..(dimension - 1) :
        (base_dimension + i < FaurePermutationTableSize)
            => (base_dimension + i < PrimeTableSize)

\* the record of an operation: its name, its receiver, its size_t argument
\* (the dimension of a split, the n of a draw, the instance of set_instance;
\* 0 when it takes none) and its outcome
Done(op, c, n, err) == last' = [op |-> op, c |-> c, n |-> n, err |-> err]

Abort(op, c, n) ==
    /\ status' = "aborted"
    /\ Done(op, c, n, "assert")
    /\ child' = NoChild
    /\ out' = NoOutput
    /\ UNCHANGED <<ctx, rngOf, rngState>>

\* an operation that returns nothing
Returns(op, c, n) ==
    /\ Done(op, c, n, "none")
    /\ child' = NoChild
    /\ out' = NoOutput

TypeOK ==
    /\ status \in {"running", "aborted"}
    /\ rngOf \in [Ctxs -> Rngs]
    /\ \A r \in Rngs : rngState[r] \in RngStates(r)
    /\ \A c \in Ctxs :
        /\ ctx[c].base_dimension \in Nat
        /\ ctx[c].base_instance \in Nat
        /\ ctx[c].dimension \in Nat
        /\ ctx[c].sample_count \in Nat
        /\ ctx[c].instance \in Nat
        /\ \A i \in 0..(VectorDimension - 1) : ctx[c].offset[i] \in Values

(***************************************************************************)
(* Construction.                                                           *)
(***************************************************************************)
\* QMCSamplingContext(RNG& rng)
Root0 ==
    [base_dimension |-> 0, base_instance |-> 0, dimension |-> 0,
     sample_count |-> 0, instance |-> 0, offset |-> ZeroOffset]

\* a faulty constructor that leaves m_offset out of its initializer list
RootWithoutOffset(dimension, sample_count, instance) ==
    [base_dimension |-> 0, base_instance |-> 0, dimension |-> dimension,
     sample_count |-> sample_count, instance |-> instance,
     offset |-> [i \in 0..(VectorDimension - 1) |-> Den \div 3]]

\* a faulty constructor that takes the starting instance for a base instance
RootAsSplit(dimension, sample_count, instance) ==
    [base_dimension |-> 0, base_instance |-> instance, dimension |-> dimension,
     sample_count |-> sample_count, instance |-> 0,
     offset |-> ZeroOffset]

\* QMCSamplingContext(RNG& rng, dimension, sample_count, instance)
Root(dimension, sample_count, instance) ==
    [base_dimension |-> 0, base_instance |-> 0, dimension |-> dimension,
     sample_count |-> sample_count, instance |-> instance,
     offset |-> ZeroOffset]

\* the arguments tried
DimensionArgs == 0..(VectorDimension + 1)
SampleCounts == {0, 1, 2}
Instances == 0..MaxInstance
\* the n tried on the closed-interval family
ClosedArgs == {0, VectorDimension}

\* what a public constructor leaves: the members are initialized first, the
\* assertion of the constructor's body runs after
Constructions ==
    {[op |-> "construct0", n |-> 0, members |-> Root0, ok |-> TRUE]}
    \cup {[op |-> "construct", n |-> d, members |-> Root(d, s, k),
           ok |-> (d <= VectorDimension)] :
            d \in DimensionArgs, s \in SampleCounts, k \in Instances}

\* context c has just been constructed, the others are dimension-0 roots
Constructed(c, k) ==
    /\ ctx = [x \in Ctxs |-> IF x = c THEN k.members ELSE Root0]
    /\ status = IF k.ok THEN "running" ELSE "aborted"
    /\ last = [op |-> k.op, c |-> c, n |-> k.n,
               err |-> IF k.ok THEN "none" ELSE "assert"]
    /\ child = NoChild
    /\ out = NoOutput

Main == 1

\* context 1 refers to generator 1, context 2 to generator 2
Init ==
    /\ \E k \in Constructions : Constructed(Main, k)
    /\ rngOf = [c \in Ctxs |-> c]
    /\ rngState \in RngSeeds

(***************************************************************************)
(* Assignment.                                                             *)
(***************************************************************************)
\* a faulty operator= that rebinds the receiver to the generator of rhs
AssignRebinding(op, b, rhs) ==
    /\ status = "running"
    /\ ctx' = [ctx EXCEPT ![b] =
                [base_dimension |-> rhs.base_dimension,
                 base_instance |-> rhs.base_instance,
                 dimension |-> rhs.dimension,
                 sample_count |-> rhs.sample_count,
                 instance |-> rhs.instance,
                 offset |-> rhs.offset]]
    /\ rngOf' = [rngOf EXCEPT ![b] = rhs.rng]
    /\ Returns(op, b, 0)
    /\ UNCHANGED <<rngState, status>>

\* operator=: copies the six data members of rhs, not the reference m_rng
Assign(op, b, rhs) ==
    /\ status = "running"
    /\ ctx' = [ctx EXCEPT ![b] =
                [base_dimension |-> rhs.base_dimension,
                 base_instance |-> rhs.base_instance,
                 dimension |-> rhs.dimension,
                 sample_count |-> rhs.sample_count,
                 instance |-> rhs.instance,
                 offset |-> rhs.offset]]
    /\ Returns(op, b, 0)
    /\ UNCHANGED <<rngOf, rngState, status>>

\* context a as the right-hand side of an assignment
Object(a) ==
    [base_dimension |-> ctx[a].base_dimension,
     base_instance |-> ctx[a].base_instance,
     dimension |-> ctx[a].dimension,
     sample_count |-> ctx[a].sample_count,
     instance |-> ctx[a].instance,
     offset |-> ctx[a].offset,
     rng |-> rngOf[a]]

(***************************************************************************)
(* Splitting.                                                              *)
(***************************************************************************)
\* the bases a split stays within (bounds of the model, not of the code)
SplitInBounds(c) ==
    /\ ctx[c].base_dimension + ctx[c].dimension <= MaxBaseDimension
    /\ ctx[c].base_instance + ctx[c].instance <= MaxBaseInstance

\* a faulty split that does not fold the instance into the base instance
split_bases_without_instance(p) ==
    [base_dimension |-> ctx[p].base_dimension + ctx[p].dimension,
     base_instance |-> ctx[p].base_instance]

\* a faulty split that does not move past the parent's dimensions
split_bases_without_dimension(p) ==
    [base_dimension |-> ctx[p].base_dimension,
     base_instance |-> ctx[p].base_instance + ctx[p].instance]

\* the bases split() passes to the private constructor
split_bases(p) ==
    [base_dimension |-> ctx[p].base_dimension + ctx[p].dimension,
     base_instance |-> ctx[p].base_instance + ctx[p].instance]

\* a faulty split_in_place that overwrites the base dimension
in_place_bases_overwriting(c) ==
    [base_dimension |-> ctx[c].dimension,
     base_instance |-> ctx[c].base_instance + ctx[c].instance]

\* m_base_dimension += m_dimension; m_base_instance += m_instance
in_place_bases(c) ==
    [base_dimension |-> ctx[c].base_dimension + ctx[c].dimension,
     base_instance |-> ctx[c].base_instance + ctx[c].instance]

\* a faulty split_in_place that checks the dimension only
in_place_asserts_dimension_only(c, dimension) ==
    dimension <= VectorDimension

\* a faulty split_in_place that checks the sequence only
in_place_asserts_sequence_only(c, dimension) ==
    ctx[c].sample_count = 0 \/ ctx[c].instance = ctx[c].sample_count

\* the two assertions that open split_in_place
in_place_asserts(c, dimension) ==
    /\ (ctx[c].sample_count = 0 \/ ctx[c].instance = ctx[c].sample_count)
    /\ dimension <= VectorDimension

\* a faulty private constructor that does not call compute_offset
PrivateConstructWithoutOffset(uninit, r, s, base_dimension, base_instance, dimension) ==
    [offset |-> uninit, rng |-> s]

\* the private constructor QMCSamplingContext(rng, base_dimension,
\* base_instance, dimension, sample_count), past its assertion: m_offset is
\* default-constructed (uninit gives its indeterminate content), then
\* compute_offset() runs.  The result is [offset, rng].
PrivateConstruct(uninit, r, s, base_dimension, base_instance, dimension) ==
    compute_offset(uninit, r, s, base_dimension, base_instance, dimension)

\* split: returns the child, which refers to the parent's generator
Split(p, dimension, sample_count) ==
    /\ status = "running"
    /\ SplitInBounds(p)
    /\ LET b == split_bases(p)
           r == rngOf[p]
       IN  IF /\ dimension <= VectorDimension
              /\ compute_offset_asserts(b.base_dimension, dimension)
           THEN \E uninit \in Uninitialized :
                  LET st == PrivateConstruct(uninit, r, rngState[r],
                                b.base_dimension, b.base_instance, dimension)
                  IN  /\ child' = << [base_dimension |-> b.base_dimension,
                                      base_instance |-> b.base_instance,
                                      dimension |-> dimension,
                                      sample_count |-> sample_count,
                                      instance |-> 0,
                                      offset |-> st.offset,
                                      rng |-> r] >>
                      /\ rngState' = [rngState EXCEPT ![r] = st.rng]
                      /\ Done("split", p, dimension, "none")
                      /\ out' = NoOutput
                      /\ UNCHANGED <<ctx, rngOf, status>>
           ELSE Abort("split", p, dimension)

\* a faulty split_in_place that does not restart the sequence
SplitInPlaceKeepingInstance(c, dimension, sample_count) ==
    /\ status = "running"
    /\ SplitInBounds(c)
    /\ LET b == in_place_bases(c)
           r == rngOf[c]
       IN  IF /\ in_place_asserts(c, dimension)
              /\ compute_offset_asserts(b.base_dimension, dimension)
           THEN LET st == compute_offset(ctx[c].offset, r, rngState[r],
                            b.base_dimension, b.base_instance, dimension)
                IN  /\ ctx' = [ctx EXCEPT ![c] =
                                [base_dimension |-> b.base_dimension,
                                 base_instance |-> b.base_instance,
                                 dimension |-> dimension,
                                 sample_count |-> sample_count,
                                 instance |-> ctx[c].instance,
                                 offset |-> st.offset]]
                    /\ rngState' = [rngState EXCEPT ![r] = st.rng]
                    /\ Returns("split_in_place", c, dimension)
                    /\ UNCHANGED <<rngOf, status>>
           ELSE Abort("split_in_place", c, dimension)

SplitInPlace(c, dimension, sample_count) ==
    /\ status = "running"
    /\ SplitInBounds(c)
    /\ LET b == in_place_bases(c)
           r == rngOf[c]
       IN  IF /\ in_place_asserts(c, dimension)
              /\ compute_offset_asserts(b.base_dimension, dimension)
           THEN LET st == compute_offset(ctx[c].offset, r, rngState[r],
                            b.base_dimension, b.base_instance, dimension)
                IN  /\ ctx' = [ctx EXCEPT ![c] =
                                [base_dimension |-> b.base_dimension,
                                 base_instance |-> b.base_instance,
                                 dimension |-> dimension,
                                 sample_count |-> sample_count,
                                 instance |-> 0,
                                 offset |-> st.offset]]
                    /\ rngState' = [rngState EXCEPT ![r] = st.rng]
                    /\ Returns("split_in_place", c, dimension)
                    /\ UNCHANGED <<rngOf, status>>
           ELSE Abort("split_in_place", c, dimension)

\* a faulty set_instance that computes the offset again
SetInstanceRecomputing(c, instance) ==
    /\ status = "running"
    /\ LET r == rngOf[c]
           st == compute_offset(ctx[c].offset, r, rngState[r],
                    ctx[c].base_dimension, ctx[c].base_instance, ctx[c].dimension)
       IN  /\ ctx' = [ctx EXCEPT ![c].instance = instance,
                                 ![c].offset = st.offset]
           /\ rngState' = [rngState EXCEPT ![r] = st.rng]
    /\ Returns("set_instance", c, instance)
    /\ UNCHANGED <<rngOf, status>>

\* a faulty set_instance that keeps the instance within a bounded sequence
SetInstanceClamped(c, instance) ==
    /\ status = "running"
    /\ ctx' = [ctx EXCEPT ![c].instance =
                IF ctx[c].sample_count > 0 /\ instance > ctx[c].sample_count
                THEN ctx[c].sample_count ELSE instance]
    /\ Returns("set_instance", c, instance)
    /\ UNCHANGED <<rngOf, rngState, status>>

\* set_instance: m_instance = instance
SetInstance(c, instance) ==
    /\ status = "running"
    /\ ctx' = [ctx EXCEPT ![c].instance = instance]
    /\ Returns("set_instance", c, instance)
    /\ UNCHANGED <<rngOf, rngState, status>>

(***************************************************************************)
(* Sample generation.                                                      *)
(***************************************************************************)
\* a faulty cache lookup that forgets the row stride
next_vector2_writes_unstrided(c, n) ==
    LET m_instance == ctx[c].instance
        m_offset == ctx[c].offset
    IN  IF m_instance < PrecomputedHaltonSequenceSize
        THEN [i \in 0..(n - 1) |->
                rotate(PrecomputedHaltonSequence[m_instance + i], m_offset[i])]
        ELSE [i \in 0..(IF n > 1 THEN n - 1 ELSE 0) |->
                IF i = 0
                THEN rotate(radical_inverse_base2(m_instance), m_offset[0])
                ELSE rotate(fast_radical_inverse(i, m_instance), m_offset[i])]

\* the components next_vector2(n, v) writes into v, past its assertions: on
\* the computed path v[0] is written whatever n is
next_vector2_writes(c, n) ==
    LET m_instance == ctx[c].instance
        m_offset == ctx[c].offset
    IN  IF m_instance < PrecomputedHaltonSequenceSize
        THEN [i \in 0..(n - 1) |->
                rotate(PrecomputedHaltonSequence[m_instance * HaltonStride + i],
                       m_offset[i])]
        ELSE [i \in 0..(IF n > 1 THEN n - 1 ELSE 0) |->
                IF i = 0
                THEN rotate(radical_inverse_base2(m_instance), m_offset[0])
                ELSE rotate(fast_radical_inverse(i, m_instance), m_offset[i])]

\* a faulty advance, once per dimension
advanced_per_dimension(c, n) == ctx[c].instance + n

\* ++m_instance
advanced(c, n) == ctx[c].instance + 1

\* a faulty next_vector2 that checks the dimension only
next_vector2_asserts_dimension_only(c, n) ==
    /\ n = ctx[c].dimension
    /\ n <= PrimeTableSize

\* the three assertions that open next_vector2
next_vector2_asserts(c, n) ==
    /\ (ctx[c].sample_count = 0 \/ ctx[c].instance < ctx[c].sample_count)
    /\ n = ctx[c].dimension
    /\ n <= PrimeTableSize

\* next_vector2(n, v); the guard on MaxInstance is a bound of the model
NextVector2(op, c, n) ==
    /\ status = "running"
    /\ ctx[c].instance < MaxInstance
    /\ IF next_vector2_asserts(c, n)
       THEN /\ out' = next_vector2_writes(c, n)
            /\ ctx' = [ctx EXCEPT ![c].instance = advanced(c, n)]
            /\ Done(op, c, n, "none")
            /\ child' = NoChild
            /\ UNCHANGED <<rngOf, rngState, status>>
       ELSE Abort(op, c, n)

\* next_vector2<N>(): Vector<double, N> v; next_vector2(N, &v[0])
NextVector2N(op, c, N) == NextVector2(op, c, N)

\* next_double2(): next_vector2<1>()[0]
NextDouble2(c) == NextVector2N("next_double2", c, 1)

\* a faulty closed family that falls back on the half-open one
NextVector1AsHalfOpen(op, c, n) == NextVector2(op, c, n)

\* next_vector1(n, v): throws, whatever n and the state
NextVector1(op, c, n) ==
    /\ status = "running"
    /\ Done(op, c, n, "ExceptionNotImplemented")
    /\ child' = NoChild
    /\ out' = NoOutput
    /\ UNCHANGED <<ctx, rngOf, rngState, status>>

\* next_vector1<N>(): Vector<double, N> v; next_vector1(N, &v[0])
NextVector1N(op, c, N) == NextVector1(op, c, N)

\* next_double1(): next_vector1<1>()[0]
NextDouble1(c) == NextVector1N("next_double1", c, 1)

HalfOpenOps == {"next_vector2", "next_vector2<N>", "next_double2"}
ClosedOps == {"next_vector1", "next_vector1<N>", "next_double1"}

(***************************************************************************)
(* One trajectory: every operation on context 1.                           *)
(***************************************************************************)
Next ==
    \/ \E d \in DimensionArgs, s \in SampleCounts : Split(Main, d, s)
    \/ \E d \in DimensionArgs, s \in SampleCounts : SplitInPlace(Main, d, s)
    \/ \E k \in Instances : SetInstance(Main, k)
    \/ NextDouble1(Main)
    \/ \E n \in ClosedArgs : NextVector1("next_vector1", Main, n)
    \/ \E n \in ClosedArgs : NextVector1N("next_vector1<N>", Main, n)
    \/ NextDouble2(Main)
    \/ \E n \in DimensionArgs : NextVector2("next_vector2", Main, n)
    \/ \E n \in DimensionArgs : NextVector2N("next_vector2<N>", Main, n)

Spec == Init /\ [][Next]_vars

(***************************************************************************)
(* A trajectory and a copy: every operation on context 1, over fewer       *)
(* arguments; context 2 is assigned context 1, or the child context 1's    *)
(* split has just returned.  Either context may refer to either generator. *)
(***************************************************************************)
Other == 2
CopyDimensions == {1, 4}
CopySampleCounts == {0, 1}
CopyInstances == {0, 1}

CopyConstructions ==
    {k \in Constructions :
        \/ k.op = "construct0"
        \/ /\ k.members.dimension \in CopyDimensions
           /\ k.members.sample_count \in CopySampleCounts
           /\ k.members.instance = 0}

InitCopy ==
    /\ \E k \in CopyConstructions : Constructed(Main, k)
    /\ rngOf \in {f \in [Ctxs -> Rngs \ {Counting}] : f[Main] # f[Other]}
    /\ rngState \in RngSeeds

\* other = main
AssignContext(b, a) == Assign("assign", b, Object(a))

\* other = main.split(d, s), the split done
AssignChild(b) == child # NoChild /\ Assign("assign_child", b, child[1])

NextCopy ==
    \/ \E d \in CopyDimensions, s \in CopySampleCounts : Split(Main, d, s)
    \/ \E d \in CopyDimensions, s \in CopySampleCounts : SplitInPlace(Main, d, s)
    \/ \E k \in CopyInstances : SetInstance(Main, k)
    \/ \E n \in CopyDimensions :
            /\ ctx[Main].instance \in CopyInstances
            /\ NextVector2("next_vector2", Main, n)
    \/ AssignContext(Other, Main)
    \/ AssignChild(Other)

SpecCopy == InitCopy /\ [][NextCopy]_vars

(***************************************************************************)
(* A trajectory on the counting generator: every operation on context 1,   *)
(* which refers to generator 3; context 2 is assigned context 1 or a       *)
(* child.  A split is taken only while the generator has values left.      *)
(***************************************************************************)
RngDimensions == {1, 4}
RngSampleCounts == {0, 1}
RngInstances == {0, 1}

RngConstructions ==
    {k \in Constructions :
        \/ k.op = "construct0"
        \/ /\ k.members.dimension \in RngDimensions
           /\ k.members.sample_count \in RngSampleCounts
           /\ k.members.instance \in RngInstances}

InitRng ==
    /\ \E k \in RngConstructions : Constructed(Main, k)
    /\ rngOf = [c \in Ctxs |-> IF c = Main THEN Counting ELSE 1]
    /\ rngState = [r \in Rngs |-> 0]

\* the generator of context c can pad a whole window
RngInBounds(c) ==
    rngState[rngOf[c]] + VectorDimension < Len(RngStream[rngOf[c]])

NextRng ==
    \/ \E d \in RngDimensions, s \in RngSampleCounts :
            RngInBounds(Main) /\ Split(Main, d, s)
    \/ \E d \in RngDimensions, s \in RngSampleCounts :
            RngInBounds(Main) /\ SplitInPlace(Main, d, s)
    \/ \E k \in RngInstances : SetInstance(Main, k)
    \/ \E n \in RngDimensions :
            /\ ctx[Main].instance \in RngInstances
            /\ NextVector2("next_vector2", Main, n)
    \/ AssignContext(Other, Main)
    \/ AssignChild(Other)

SpecRng == InitRng /\ [][NextRng]_vars

(***************************************************************************)
(* A parent and its child: context 1 is split, context 2 is the child       *)
(* returned (child = parent.split(d, s)) and refers to the parent's         *)
(* generator; the child is drawn from, moved and split in its turn.        *)
(***************************************************************************)
TreeDimensions == {1, 2}
TreeSampleCounts == {0, 1}
TreeInstances == {0, 1}

TreeConstructions ==
    {k \in Constructions :
        \/ k.op = "construct0"
        \/ /\ k.members.dimension \in TreeDimensions
           /\ k.members.sample_count \in TreeSampleCounts
           /\ k.members.instance \in TreeInstances}

InitTree ==
    /\ \E k \in TreeConstructions : Constructed(Main, k)
    /\ rngOf = [c \in Ctxs |-> 1]
    /\ rngState \in RngSeeds

\* context c has been given a child: it is no longer the dimension-0 root it
\* was constructed as
Given(c) == ctx[c].dimension > 0

\* the child is used once it has been returned
NextTree ==
    \/ \E d \in TreeDimensions, s \in TreeSampleCounts : Split(Main, d, s)
    \/ last.c = Main /\ AssignChild(Other)
    \/ \E k \in TreeInstances : Given(Other) /\ SetInstance(Other, k)
    \/ \E n \in TreeDimensions :
            /\ Given(Other)
            /\ ctx[Other].instance \in TreeInstances
            /\ NextVector2("next_vector2", Other, n)
    \/ \E d \in TreeDimensions, s \in TreeSampleCounts :
            Given(Other) /\ Split(Other, d, s)
    \/ \E d \in TreeDimensions, s \in TreeSampleCounts :
            Given(Other) /\ SplitInPlace(Other, d, s)

SpecTree == InitTree /\ [][NextTree]_vars

(***************************************************************************)
(* KelemenBRDFImpl::sample (renderer/modeling/bsdf/kelemenbrdf.cpp), called *)
(* again and again on one sampling context that starts unbounded or        *)
(* exhausted: split_in_place(3, 1), then next_vector2<3>().                *)
(***************************************************************************)
SampleDimension == 3
SampleCount == 1

\* sampling_context.split_in_place(3, 1)
SampleSplit(c) ==
    /\ last.op # "split_in_place"
    /\ SplitInPlace(c, SampleDimension, SampleCount)

\* const Vector3d s = sampling_context.next_vector2<3>()
SampleDraw(c) ==
    /\ last.op = "split_in_place"
    /\ NextVector2N("next_vector2<N>", c, SampleDimension)

InitSample ==
    /\ \E k \in Constructions :
            /\ k.ok
            /\ (k.members.sample_count = 0
                    \/ k.members.instance = k.members.sample_count)
            /\ Constructed(Main, k)
    /\ rngOf = [c \in Ctxs |-> c]
    /\ rngState \in RngSeeds

NextSample ==
    \/ SampleSplit(Main)
    \/ SampleDraw(Main)

SpecSample == InitSample /\ [][NextSample]_vars

(***************************************************************************)
(* The two forms of splitting side by side: one context is split in either *)
(* form, with a dimension that is accepted or not, at the end or in the    *)
(* middle of its sequence, and drawn from.                                 *)
(***************************************************************************)
FormsDimensions == {1, 2, VectorDimension, VectorDimension + 1}
FormsSampleCounts == {0, 1, 2}
FormsInstances == {0, 1}

FormsConstructions ==
    {k \in Constructions :
        \/ k.op = "construct0"
        \/ /\ k.members.dimension \in FormsDimensions
           /\ k.members.sample_count \in FormsSampleCounts
           /\ k.members.instance \in FormsInstances}

InitForms ==
    /\ \E k \in FormsConstructions : Constructed(Main, k)
    /\ rngOf = [c \in Ctxs |-> c]
    /\ rngState \in RngSeeds

NextForms ==
    \/ \E d \in FormsDimensions, s \in FormsSampleCounts : Split(Main, d, s)
    \/ \E d \in FormsDimensions, s \in FormsSampleCounts : SplitInPlace(Main, d, s)
    \/ \E n \in FormsDimensions : NextVector2("next_vector2", Main, n)

SpecForms == InitForms /\ [][NextForms]_vars

(***************************************************************************)
(* Properties.                                                             *)
(***************************************************************************)
Accepted == last.err = "none"
Drawn == last.op \in HalfOpenOps /\ Accepted
MidSequence(c) ==
    ctx[c].sample_count > 0 /\ ctx[c].instance < ctx[c].sample_count

\* a step of the operation op
Step(op) == last'.op = op /\ vars' # vars

\* C1: the context produced by split(d, s) or by split_in_place(d, s) has
\* total_dimension = the parent's total_dimension + d and total_instance =
\* the parent's total_instance: its base_dimension is the parent's
\* base_dimension + dimension, its base_instance the parent's base_instance +
\* instance, and its instance 0.
C1_SplitTotals ==
    [][/\ (Step("split") /\ last'.err = "none") =>
            LET ch == child'[1] IN
            /\ ch.dimension = last'.n
            /\ ch.base_dimension + ch.dimension
                    = get_total_dimension(Main) + last'.n
            /\ ch.base_instance + ch.instance = get_total_instance(Main)
            /\ ch.base_dimension
                    = ctx[Main].base_dimension + ctx[Main].dimension
            /\ ch.base_instance = ctx[Main].base_instance + ctx[Main].instance
            /\ ch.instance = 0
       /\ (Step("split_in_place") /\ last'.err = "none") =>
            /\ ctx'[Main].dimension = last'.n
            /\ get_total_dimension(Main)' = get_total_dimension(Main) + last'.n
            /\ get_total_instance(Main)' = get_total_instance(Main)
            /\ ctx'[Main].base_dimension
                    = ctx[Main].base_dimension + ctx[Main].dimension
            /\ ctx'[Main].base_instance
                    = ctx[Main].base_instance + ctx[Main].instance
            /\ ctx'[Main].instance = 0]_vars

\* a split in place of a context that had consumed dimensions and instances
C1_Witness ==
    /\ last.op = "split_in_place" /\ Accepted
    /\ ctx[Main].base_dimension = 3
    /\ ctx[Main].base_instance = 1
    /\ ctx[Main].dimension = 2

C3_DrawAdvancesByOne ==
    [][(\E op \in HalfOpenOps : Step(op) /\ last'.err = "none")
            => /\ ctx'[Main].instance = ctx[Main].instance + 1
               /\ ctx'[Main].base_dimension = ctx[Main].base_dimension
               /\ ctx'[Main].base_instance = ctx[Main].base_instance
               /\ ctx'[Main].dimension = ctx[Main].dimension
               /\ ctx'[Main].sample_count = ctx[Main].sample_count
               /\ ctx'[Main].offset = ctx[Main].offset
               /\ rngState' = rngState
               /\ rngOf' = rngOf]_vars

\* a draw of four dimensions on the computed path
C3_Witness ==
    /\ last.op = "next_vector2" /\ Accepted
    /\ ctx[Main].dimension = 4
    /\ ctx[Main].instance = PrecomputedHaltonSequenceSize + 1

\* the Halton sequence, written out: the van der Corput sequence in base 2
\* and, for the other bases, the two-digit radical inverse (k < base^2)
VanDerCorput ==
    <<0, Den \div 2, Den \div 4, 3 * (Den \div 4),
      Den \div 8, 5 * (Den \div 8), 3 * (Den \div 8), 7 * (Den \div 8)>>
HaltonBases == <<2, 3, 5, 7>>
Halton(i, k) ==
    IF i = 0 THEN VanDerCorput[k + 1]
    ELSE LET b == HaltonBases[i + 1]
         IN  (k % b) * (Den \div b) + (k \div b) * (Den \div (b * b))

\* the index of the sample the last draw emitted
Emitted(c) == ctx[c].instance - 1

\* C4: every component emitted by a half-open draw is x + o when x + o < 1
\* and x + o - 1 otherwise, x being the unrotated value and o the stored
\* offset, both in [0,1); so it lies in [0,1) and is never 1.
C4_HalfOpenRange ==
    Drawn =>
        \A i \in 0..(ctx[last.c].dimension - 1) :
            LET x == Halton(i, Emitted(last.c))
                o == ctx[last.c].offset[i]
            IN  /\ o \in Values
                /\ out[i] \in Values
                /\ out[i] = IF x + o < Den THEN x + o ELSE x + o - Den

\* a padded dimension whose unrotated value 1/3 and offset 2/3 sum to 1
C4_Witness ==
    /\ Drawn
    /\ ctx[Main].dimension = 2
    /\ ctx[Main].base_dimension + 1 >= FaurePermutationTableSize
    /\ Emitted(Main) = 1
    /\ ctx[Main].offset[1] = 2 * (Den \div 3)
    /\ out[1] = 0

\* C5: on a context with base_dimension = 0, base_instance = 0 and a zero
\* offset, the k-th draw has component 0 equal to the base-2 radical inverse
\* of k and component i >= 1 the radical inverse of k in base 3, 5, 7; one
\* dimension yields 0, 1/2, 1/4, 3/4 and two dimensions (0,0), (1/2,1/3),
\* (1/4,2/3), (3/4,1/9) for k = 0..3.
C5_RootHalton ==
    (/\ Drawn
     /\ ctx[Main].base_dimension = 0
     /\ ctx[Main].base_instance = 0
     /\ ctx[Main].dimension >= 1
     /\ \A i \in 0..(ctx[Main].dimension - 1) : ctx[Main].offset[i] = 0)
    => LET k == Emitted(Main)
           n == ctx[Main].dimension
       IN  /\ DOMAIN out = 0..(n - 1)
           /\ \A i \in 0..(n - 1) : out[i] = Halton(i, k)
           /\ (k <= 3) =>
                out[0] = <<0, Den \div 2, Den \div 4, 3 * (Den \div 4)>>[k + 1]
           /\ (k <= 3 /\ n >= 2) =>
                out[1] = <<0, Den \div 3, 2 * (Den \div 3), Den \div 9>>[k + 1]

\* the fourth draw of a two-dimensional root: (3/4, 1/9)
C5_Witness ==
    /\ Drawn
    /\ ctx[Main].base_dimension = 0
    /\ ctx[Main].base_instance = 0
    /\ ctx[Main].dimension = 2
    /\ ctx[Main].sample_count = 0
    /\ ctx[Main].offset = ZeroOffset
    /\ Emitted(Main) = 3
    /\ out[0] = 3 * (Den \div 4)
    /\ out[1] = Den \div 9

\* C6: every call of the closed-interval family throws the not-implemented
\* error, whatever the state and n, emits nothing and changes no member of
\* the context.
C6_ClosedFamilyThrows ==
    [][(\E op \in ClosedOps : Step(op))
            => /\ last'.err = "ExceptionNotImplemented"
               /\ out' = NoOutput
               /\ child' = NoChild
               /\ ctx' = ctx
               /\ rngOf' = rngOf
               /\ rngState' = rngState
               /\ status' = status]_vars

\* next_vector1(4, v) has thrown on a bounded context in mid-sequence
C6_Witness ==
    /\ last.op = "next_vector1"
    /\ last.n = VectorDimension
    /\ last.err = "ExceptionNotImplemented"
    /\ ctx[Main].sample_count = 2
    /\ ctx[Main].instance = 1
    /\ ctx[Main].base_dimension > 0

\* C10: right after the public constructor with dimension > 0, offset[i] is,
\* for every i < dimension, what the offset computation assigns for
\* base_dimension = 0 and base_instance = 0: the digit-permuted radical
\* inverse of 0 in the base of global dimension i.
C10_RootOffsetAsComputed ==
    (last.op = "construct" /\ Accepted /\ ctx[last.c].dimension > 0)
    => LET c == last.c
           computed == compute_offset(ctx[c].offset, rngOf[c],
                            rngState[rngOf[c]], 0, 0, ctx[c].dimension)
       IN  /\ ctx[c].base_dimension = 0
           /\ ctx[c].base_instance = 0
           /\ \A i \in 0..(ctx[c].dimension - 1) :
                /\ ctx[c].offset[i] = computed.offset[i]
                /\ ctx[c].offset[i] =
                      fast_permuted_radical_inverse(i, FaurePermutations[i + 1], 0)

\* a root of four dimensions, just constructed in mid-sequence
C10_Witness ==
    /\ last.op = "construct" /\ Accepted
    /\ ctx[Main].dimension = 4
    /\ ctx[Main].sample_count = 2
    /\ ctx[Main].instance = 1

\* C7: after B = A the six data members of B are those of A, B refers to the
\* generator it was constructed with, and no later operation on A changes
\* a member of B.
C7_AssignmentIsACopy ==
    [][/\ Step("assign") =>
            /\ ctx'[Other] = ctx[Main]
            /\ ctx'[Main] = ctx[Main]
            /\ rngOf' = rngOf
            /\ rngState' = rngState
       /\ (\E op \in {"split", "split_in_place", "set_instance", "next_vector2"} :
                Step(op) /\ last'.c = Main) =>
            /\ ctx'[Other] = ctx[Other]
            /\ rngOf'[Other] = rngOf[Other]]_vars

\* the copy of a four-dimensional root, after the original was split in place
C7_Witness ==
    /\ last.op = "split_in_place" /\ Accepted
    /\ ctx[Other].base_dimension = 0
    /\ ctx[Other].dimension = 4
    /\ ctx[Other].instance = 1
    /\ ctx[Main].base_dimension = 4
    /\ ctx[Main].base_instance = 1
    /\ rngOf[Other] # rngOf[Main]

SameParameters(a, b) ==
    /\ ctx[a].base_dimension = ctx[b].base_dimension
    /\ ctx[a].base_instance = ctx[b].base_instance
    /\ ctx[a].dimension = ctx[b].dimension
    /\ ctx[a].sample_count = ctx[b].sample_count
Covered(c) ==
    ctx[c].base_dimension + ctx[c].dimension <= FaurePermutationTableSize

\* C8: two contexts with the same base_dimension, base_instance, dimension
\* and sample_count, all of whose global dimensions the permutation table
\* covers, have the same offsets and emit the same sample at every instance,
\* whatever the generators they refer to and the states of these.
C8_CoveredIsDeterministic ==
    (SameParameters(Main, Other) /\ Covered(Main)) =>
        \A i \in 0..(ctx[Main].dimension - 1) :
            /\ ctx[Main].offset[i] = ctx[Other].offset[i]
            /\ (ctx[Main].instance = ctx[Other].instance) =>
                    next_vector2_writes(Main, ctx[Main].dimension)[i]
                        = next_vector2_writes(Other, ctx[Other].dimension)[i]

\* the receiver of a split in place and the child of an earlier split, both
\* on global dimension 4 with base_instance 1
C8_Witness ==
    /\ last.op = "split_in_place" /\ Accepted
    /\ SameParameters(Main, Other)
    /\ Covered(Main)
    /\ ctx[Main].base_dimension = 4
    /\ ctx[Main].base_instance = 1
    /\ ctx[Main].dimension = 1
    /\ ctx[Main].offset[0] = 7 * (Den \div 11)
    /\ ctx[Main].instance = ctx[Other].instance
    /\ rngOf[Main] # rngOf[Other]

\* the first local dimension of a context of base dimension bd that is padded
FirstPadded(bd) ==
    IF bd >= FaurePermutationTableSize THEN 0 ELSE FaurePermutationTableSize - bd
\* the j-th value generator r returns from state s on
Returned(r, s, j) == RngStream[r][((s + j) % Len(RngStream[r])) + 1]
\* the offsets of the padded dimensions of context x, computed from state s of
\* generator r, are the values r returns, in order
PaddedFromGenerator(x, r, s) ==
    \A i \in FirstPadded(x.base_dimension)..(x.dimension - 1) :
        /\ x.offset[i] = Returned(r, s, i - FirstPadded(x.base_dimension))
        /\ (r = 2) => x.offset[i] = 3 * (Den \div 10)

\* C9: a split that gives a local dimension a global dimension beyond the
\* permutation table succeeds; the offset of that dimension is the next value
\* the generator returns (0.3 for the generator fixed to 0.3); every later
\* sample of that dimension is the unrotated value plus that offset, modulo 1.
C9_PaddingFromGenerator ==
    [][/\ (/\ Step("split_in_place")
           /\ (ctx[Main].sample_count = 0
                    \/ ctx[Main].instance = ctx[Main].sample_count)
           /\ last'.n <= VectorDimension) =>
            /\ last'.err = "none"
            /\ PaddedFromGenerator(ctx'[Main], rngOf[Main], rngState[rngOf[Main]])
       /\ (Step("split") /\ last'.n <= VectorDimension) =>
            /\ last'.err = "none"
            /\ PaddedFromGenerator(child'[1], rngOf[Main], rngState[rngOf[Main]])
       /\ (\E op \in HalfOpenOps : Step(op) /\ last'.err = "none") =>
            \A i \in FirstPadded(ctx[Main].base_dimension)
                        ..(ctx[Main].dimension - 1) :
                out'[i] = (Halton(i, ctx[Main].instance) + ctx[Main].offset[i]) % Den
      ]_vars

\* a sample drawn from three padded dimensions of the generator fixed to 0.3
C9_Witness ==
    /\ Drawn
    /\ rngOf[Main] = 2
    /\ ctx[Main].base_dimension = 4
    /\ ctx[Main].dimension = 4
    /\ Emitted(Main) = 1
    /\ \A i \in 1..3 : ctx[Main].offset[i] = 3 * (Den \div 10)
    /\ out[1] = (Den \div 3) + 3 * (Den \div 10)

\* C11: in every state the public operations reach, sample_count = 0 or
\* instance <= sample_count.
C11_InstanceWithinSampleCount ==
    status = "running" =>
        \A c \in Ctxs :
            ctx[c].sample_count = 0 \/ ctx[c].instance <= ctx[c].sample_count

\* C12: dimension <= 4 in every context of a running program; the public
\* constructor, split and split_in_place reject a requested dimension above 4
\* (the program is aborted), a split leaves no context and returns no child
\* with such a dimension.
C12_DimensionWithinWindow ==
    /\ status = "running" =>
            \A c \in Ctxs : ctx[c].dimension <= VectorDimension
    /\ child # NoChild => child[1].dimension <= VectorDimension
    /\ (last.op \in {"construct", "split", "split_in_place"}
            /\ last.n > VectorDimension)
          => /\ last.err = "assert"
             /\ status = "aborted"
             /\ child = NoChild
    /\ last.op \in {"split", "split_in_place"} =>
            \A c \in Ctxs : ctx[c].dimension <= VectorDimension

\* split_in_place(5, s) has been refused for an unbounded context produced by
\* a split
C12_Witness ==
    /\ last.op = "split_in_place" /\ last.err = "assert"
    /\ last.n = VectorDimension + 1
    /\ ctx[Main].sample_count = 0
    /\ ctx[Main].dimension = 2
    /\ ctx[Main].base_dimension = 2

\* C13: a half-open draw with argument n is accepted exactly when n =
\* dimension and (sample_count = 0 or instance < sample_count); a call with
\* another n, or on a bounded context with instance >= sample_count, fails
\* its precondition, emits nothing and does not advance instance.
C13_DrawPreconditions ==
    [][(\E op \in HalfOpenOps : Step(op)) =>
            LET c == last'.c
                n == last'.n
            IN  /\ (last'.err = "none") <=>
                        /\ n = ctx[c].dimension
                        /\ (ctx[c].sample_count = 0
                                \/ ctx[c].instance < ctx[c].sample_count)
                /\ (last'.err # "none") =>
                        /\ last'.err = "assert"
                        /\ status' = "aborted"
                        /\ out' = NoOutput
                        /\ ctx' = ctx]_vars

\* a draw of the right dimension has been refused for an exhausted context
C13_Witness ==
    /\ last.op = "next_vector2" /\ last.err = "assert"
    /\ last.n = 2
    /\ ctx[Main].dimension = 2
    /\ ctx[Main].sample_count = 2
    /\ ctx[Main].instance = 2
    /\ ctx[Main].base_dimension > 0

\* the number of local dimensions of context x beyond the permutation table
PaddedDimensions(x) ==
    Cardinality({i \in 0..(x.dimension - 1) :
                    x.base_dimension + i >= FaurePermutationTableSize})

\* C14: the values consumed from the random source are those of the splits:
\* each split or split_in_place consumes one value per local dimension i <
\* dimension with base_dimension + i beyond the permutation table, and
\* set_instance, assignment, draws and refused calls consume none.
C14_ConsumedBySplitsOnly ==
    [][/\ (Step("split") /\ last'.err = "none") =>
            rngState' = [rngState EXCEPT ![rngOf[Main]] =
                            @ + PaddedDimensions(child'[1])]
       /\ (Step("split_in_place") /\ last'.err = "none") =>
            rngState' = [rngState EXCEPT ![rngOf[Main]] =
                            @ + PaddedDimensions(ctx'[Main])]
       /\ (last'.op \notin {"split", "split_in_place"} \/ last'.err # "none") =>
            rngState' = rngState]_vars

\* the generator has returned five values: two to a split of dimensions 4..7
\* left after one of dimensions 1..4, three to a split in place of dimensions
\* 4..7
C14_Witness ==
    /\ last.op = "split_in_place" /\ Accepted
    /\ rngOf[Main] = Counting
    /\ ctx[Main].base_dimension = 4
    /\ ctx[Main].dimension = 4
    /\ rngState[Counting] = 5

\* C15: between the creation of a context and its next split_in_place the
\* offset does not change: a half-open draw, set_instance, split() and a
\* failing call of the closed family each leave offset[0..dimension-1] as it
\* was.
C15_OffsetFixedBetweenSplits ==
    [][(\E op \in HalfOpenOps \cup ClosedOps \cup {"set_instance", "split"} :
            Step(op))
        => /\ ctx'[Main].dimension = ctx[Main].dimension
           /\ \A i \in 0..(ctx[Main].dimension - 1) :
                ctx'[Main].offset[i] = ctx[Main].offset[i]]_vars

\* set_instance has moved a context one of whose dimensions is padded
C15_Witness ==
    /\ last.op = "set_instance"
    /\ ctx[Main].base_dimension = 4
    /\ ctx[Main].dimension = 2
    /\ ctx[Main].offset[1] = (2 * Den) \div 3
    /\ ctx[Main].instance = 3

\* the receiver c is at a point where a sequence may be left: it is unbounded
\* or exhausted
AtSequenceEnd(c) ==
    ctx[c].sample_count = 0 \/ ctx[c].instance = ctx[c].sample_count
\* split(d, s) would be accepted by context c
SplitAccepts(c, d) ==
    /\ d <= VectorDimension
    /\ compute_offset_asserts(split_bases(c).base_dimension, d)
\* split_in_place(d, s) would be accepted by context c
InPlaceAccepts(c, d) ==
    /\ in_place_asserts(c, d)
    /\ compute_offset_asserts(in_place_bases(c).base_dimension, d)
\* what split_in_place(d, s) would compute for context c: [offset, rng]
InPlaceComputes(c, d) ==
    compute_offset(ctx[c].offset, rngOf[c], rngState[rngOf[c]],
        in_place_bases(c).base_dimension, in_place_bases(c).base_instance, d)
\* what split(d, s) would compute for context c from the indeterminate
\* vector uninit: [offset, rng]
SplitComputes(c, d, uninit) ==
    PrivateConstruct(uninit, rngOf[c], rngState[rngOf[c]],
        split_bases(c).base_dimension, split_bases(c).base_instance, d)
\* the context x has the bases b, dimension d, instance 0 and, on the indexes
\* in idx, the offset computed in st
Produced(x, b, d, st, idx) ==
    /\ x.base_dimension = b.base_dimension
    /\ x.base_instance = b.base_instance
    /\ x.dimension = d
    /\ x.instance = 0
    /\ \A i \in idx : x.offset[i] = st.offset[i]

ChildOf(x, p) ==
    /\ x.base_dimension = p.base_dimension + p.dimension
    /\ x.base_instance = p.base_instance + p.instance

\* C17: when the child of a parent P, split with d1 dimensions and advanced
\* to instance k, is split again, the grandchild has base_dimension =
\* P.base_dimension + P.dimension + d1 and base_instance = P.base_instance +
\* P.instance + k, whichever form the second split takes.
C17_DoubleSplitAdds ==
    [][(/\ last'.c = Other
        /\ last'.err = "none"
        /\ ChildOf(ctx[Other], ctx[Main])) =>
          LET P == ctx[Main]
              d1 == ctx[Other].dimension
              k == ctx[Other].instance
          IN  /\ Step("split") =>
                    /\ child'[1].base_dimension
                            = P.base_dimension + P.dimension + d1
                    /\ child'[1].base_instance
                            = P.base_instance + P.instance + k
              /\ Step("split_in_place") =>
                    /\ ctx'[Other].base_dimension
                            = P.base_dimension + P.dimension + d1
                    /\ ctx'[Other].base_instance
                            = P.base_instance + P.instance + k]_vars

\* the child of a two-dimensional root, of two dimensions and with one sample
\* drawn, has been split
C17_Witness ==
    /\ last.op = "split" /\ last.c = Other /\ Accepted
    /\ ctx[Main].base_dimension = 0
    /\ ctx[Main].dimension = 2
    /\ ctx[Main].instance = 0
    /\ ctx[Other].base_dimension = 2
    /\ ctx[Other].dimension = 2
    /\ ctx[Other].instance = 1
    /\ child[1].base_dimension = 4
    /\ child[1].base_instance = 1

\* C18: a context a public constructor has built has base_dimension = 0 and
\* base_instance = 0, so total_dimension = dimension (the one requested) and
\* total_instance = instance (the starting instance); the dimension-0
\* constructor gives dimension = 0, sample_count = 0, instance = 0 and an
\* all-zero offset.
C18_PublicConstructorBases ==
    /\ (last.op \in {"construct", "construct0"} /\ Accepted) =>
            LET c == last.c IN
            /\ ctx[c].base_dimension = 0
            /\ ctx[c].base_instance = 0
            /\ ctx[c].dimension = last.n
            /\ get_total_dimension(c) = ctx[c].dimension
            /\ get_total_instance(c) = ctx[c].instance
            /\ ctx[c].instance \in Instances
            /\ ctx[c].sample_count \in SampleCounts
    /\ (last.op = "construct0") =>
            LET c == last.c IN
            /\ Accepted
            /\ ctx[c].dimension = 0
            /\ ctx[c].sample_count = 0
            /\ ctx[c].instance = 0
            /\ \A i \in 0..(VectorDimension - 1) : ctx[c].offset[i] = 0

\* a root of three dimensions constructed at instance 3 of 2 samples
C18_Witness ==
    /\ last.op = "construct" /\ Accepted
    /\ ctx[Main].dimension = 3
    /\ ctx[Main].sample_count = 2
    /\ ctx[Main].instance = 3
    /\ get_total_instance(Main) = 3

\* the end of the window of global dimensions of the context x
WindowEnd(x) == x.base_dimension + x.dimension

\* C19 as stated: the window of each context a split produces begins at or
\* after the end of the window of every context produced before: of the
\* receiver, of the receiver's parent, and of a child split() returned
\* earlier from the same parent.
C19_BlocksDisjointAndHigher ==
    [][/\ (Step("split") /\ last'.err = "none") =>
            /\ child'[1].base_dimension >= WindowEnd(ctx[last'.c])
            /\ ChildOf(ctx[Other], ctx[Main]) =>
                    /\ child'[1].base_dimension >= WindowEnd(ctx[Main])
                    /\ child'[1].base_dimension >= WindowEnd(ctx[Other])
       /\ (Step("split_in_place") /\ last'.err = "none") =>
            /\ ctx'[last'.c].base_dimension >= WindowEnd(ctx[last'.c])
            /\ ChildOf(ctx[Other], ctx[Main]) =>
                    ctx'[last'.c].base_dimension >= WindowEnd(ctx[Main])
      ]_vars

\* C19 amended: the window of the context a split produces begins exactly at
\* the end of the window of its receiver, so it lies after the windows of the
\* receiver and of the receiver's parent; a child split() returns from a
\* parent that has not changed begins where the child returned earlier
\* begins, it does not lie after it.
C19_BlocksFollowTheReceiver ==
    [][/\ (Step("split") /\ last'.err = "none") =>
            /\ child'[1].base_dimension = WindowEnd(ctx[last'.c])
            /\ ctx' = ctx
            /\ (last'.c = Other /\ ChildOf(ctx[Other], ctx[Main])) =>
                    /\ child'[1].base_dimension >= WindowEnd(ctx[Main])
                    /\ child'[1].base_dimension >= WindowEnd(ctx[Other])
            /\ (last'.c = Main /\ ChildOf(ctx[Other], ctx[Main])) =>
                    child'[1].base_dimension = ctx[Other].base_dimension
       /\ (Step("split_in_place") /\ last'.err = "none") =>
            /\ ctx'[last'.c].base_dimension = WindowEnd(ctx[last'.c])
            /\ ChildOf(ctx[Other], ctx[Main]) =>
                    ctx'[last'.c].base_dimension >= WindowEnd(ctx[Main])
      ]_vars

\* the parent has been split again while its first child, of two dimensions,
\* is held: both children begin at global dimension 1
C19_Witness ==
    /\ last.op = "split" /\ last.c = Main /\ Accepted
    /\ ctx[Main].dimension = 1
    /\ ChildOf(ctx[Other], ctx[Main])
    /\ ctx[Other].dimension = 2
    /\ child[1].base_dimension = 1
    /\ child[1].dimension = 2

\* C20: the sampling step split_in_place(3, 1), next_vector2<3>() can be
\* repeated on a context that starts exhausted or unbounded: neither call
\* fails, after the draw instance = sample_count = 1, so that the next split
\* is accepted; the split adds 3 to total_dimension and nothing to
\* total_instance, the draw adds 1 to total_instance.
C20_SampleRepeats ==
    [][/\ Step("split_in_place") =>
            /\ last'.err = "none"
            /\ get_total_dimension(Main)' = get_total_dimension(Main) + 3
            /\ get_total_instance(Main)' = get_total_instance(Main)
            /\ ctx'[Main].dimension = 3
            /\ ctx'[Main].sample_count = 1
            /\ ctx'[Main].instance = 0
       /\ Step("next_vector2<N>") =>
            /\ last'.err = "none"
            /\ DOMAIN out' = 0..2
            /\ get_total_dimension(Main)' = get_total_dimension(Main)
            /\ get_total_instance(Main)' = get_total_instance(Main) + 1
            /\ ctx'[Main].instance = 1
            /\ ctx'[Main].sample_count = 1
            /\ ctx'[Main].instance = ctx'[Main].sample_count
       /\ status' = "running"]_vars

\* the second sample of a trajectory that began with a root of one dimension:
\* total_dimension has grown by 6, total_instance by 2
C20_Witness ==
    /\ last.op = "next_vector2<N>" /\ Accepted
    /\ ctx[Main].base_dimension = 4
    /\ ctx[Main].base_instance = 1
    /\ get_total_dimension(Main) = 1 + 6
    /\ get_total_instance(Main) = 0 + 2

\* C21: an accepted half-open draw with argument n writes the components
\* v[0..n-1] of the output buffer and no other, whatever n in 0..4 and the
\* path taken, n = 0 on a context of dimension 0 included.
C21_WritesExactlyN ==
    Drawn => DOMAIN out = 0..(last.n - 1)

\* C22: set_instance(k) sets instance to k whatever k and sample_count are
\* and changes nothing else, so total_instance becomes base_instance + k; the
\* next accepted draw emits the sample of index k and leaves instance at
\* k + 1.
C22_SetInstanceSeeks ==
    [][/\ \A c \in Ctxs : (Step("set_instance") /\ last'.c = c) =>
            LET k == last'.n
            IN  /\ last'.err = "none"
                /\ status' = "running"
                /\ ctx'[c].instance = k
                /\ ctx' = [ctx EXCEPT ![c].instance = k]
                /\ get_total_instance(c)' = ctx[c].base_instance + k
                /\ rngOf' = rngOf
                /\ rngState' = rngState
       /\ (/\ last.op = "set_instance"
           /\ \E op \in HalfOpenOps : Step(op)
           /\ last'.err = "none") =>
            LET c == last.c
                k == last.n
            IN  /\ last'.c = c
                /\ ctx'[c].instance = k + 1
                /\ \A i \in 0..(ctx[c].dimension - 1) :
                        out'[i] = rotate(Halton(i, k), ctx[c].offset[i])
      ]_vars

\* set_instance(3) on a context of two samples produced by a split
C22_Witness ==
    /\ last.op = "set_instance"
    /\ last.n = 3
    /\ ctx[Main].instance = 3
    /\ ctx[Main].sample_count = 2
    /\ ctx[Main].base_instance = 1
    /\ get_total_instance(Main) = 4

=============================================================================
